---- MODULE Spec2Model ----
(***************************************************************************)
(* A model of validate-data-tree (lib/validate.js): the schema flattener,  *)
(* the path codec, the validator composer, the recursive tree validator    *)
(* and the public validate entry point.                                    *)
(*                                                                         *)
(* JavaScript values are tagged records.  A string is the sequence of its  *)
(* characters, so that split('.') and join('.') are computed, not assumed. *)
(* An object is the sequence of its own (key, value) pairs in insertion    *)
(* order, which is the order Object.keys / Object.entries enumerate.       *)
(***************************************************************************)
EXTENDS Integers, Sequences, FiniteSets, TLC

VARIABLES obj, schema, pc, out, log

vars == <<obj, schema, pc, out, log>>

(***************************************************************************)
(* Bounds of the model.                                                    *)
(***************************************************************************)
MaxValidators == 2   \* longest `validate` mapping drawn for a field rule
MaxArrLen == 2       \* longest array drawn for the input value

(***************************************************************************)
(* JavaScript values.                                                      *)
(***************************************************************************)
Undef == [t |-> "undefined"]
Null == [t |-> "null"]
Str(s) == [t |-> "string", s |-> s]
Num(n) == [t |-> "number", n |-> n]
Bool(b) == [t |-> "boolean", b |-> b]
Obj(f) == [t |-> "object", f |-> f]
Arr(e) == [t |-> "array", e |-> e]
Fn(name) == [t |-> "function", name |-> name]
Pair(k, v) == [k |-> k, v |-> v]

\* `x == null`
IsNullish(v) == v.t \in {"undefined", "null"}

\* ToBoolean
Truthy(v) ==
  CASE v.t \in {"undefined", "null"} -> FALSE
    [] v.t = "string" -> Len(v.s) > 0
    [] v.t = "number" -> v.n # 0
    [] v.t = "boolean" -> v.b
    [] OTHER -> TRUE

\* typeof
TypeOf(v) ==
  CASE v.t \in {"null", "object", "array"} -> "object"
    [] OTHER -> v.t

IsArray(v) == v.t = "array"

Digits == <<"0", "1", "2", "3", "4", "5", "6", "7", "8", "9">>

RECURSIVE NumStr(_)
NumStr(n) == IF n < 10 THEN <<Digits[n + 1]>> ELSE NumStr(n \div 10) \o <<Digits[(n % 10) + 1]>>

RECURSIVE Join(_, _)
\* Array.prototype.join on an array of strings
Join(parts, sep) ==
  IF Len(parts) = 0 THEN <<>>
  ELSE IF Len(parts) = 1 THEN parts[1]
  ELSE parts[1] \o sep \o Join(Tail(parts), sep)

RECURSIVE ToStr(_)
\* String(v)
ToStr(v) ==
  CASE v.t = "undefined" -> <<"u", "n", "d", "e", "f", "i", "n", "e", "d">>
    [] v.t = "null" -> <<"n", "u", "l", "l">>
    [] v.t = "string" -> v.s
    [] v.t = "number" -> NumStr(v.n)
    [] v.t = "boolean" -> IF v.b THEN <<"t", "r", "u", "e">> ELSE <<"f", "a", "l", "s", "e">>
    [] v.t = "array" ->
         Join([i \in 1..Len(v.e) |-> IF IsNullish(v.e[i]) THEN <<>> ELSE ToStr(v.e[i])], <<",">>)
    [] v.t = "object" ->
         <<"[", "o", "b", "j", "e", "c", "t", " ", "O", "b", "j", "e", "c", "t", "]">>
    [] OTHER -> <<"f", "n">>

\* Object.keys(o): own enumerable keys, as strings
ObjectKeys(o) ==
  CASE o.t = "object" -> [i \in 1..Len(o.f) |-> o.f[i].k]
    [] o.t = "array" -> [i \in 1..Len(o.e) |-> NumStr(i - 1)]
    [] o.t = "string" -> [i \in 1..Len(o.s) |-> NumStr(i - 1)]
    [] OTHER -> <<>>

\* immutable's get(collection, key) on plain JS data: own properties of plain
\* objects and arrays only; anything else has no keys
LengthKey == <<"l", "e", "n", "g", "t", "h">>

get(collection, key) ==
  CASE collection.t = "object" ->
         IF \E i \in 1..Len(collection.f) : collection.f[i].k = key
         THEN collection.f[CHOOSE i \in 1..Len(collection.f) : collection.f[i].k = key].v
         ELSE Undef
    [] collection.t = "array" ->
         IF key = LengthKey THEN Num(Len(collection.e))
         ELSE IF \E i \in 1..Len(collection.e) : NumStr(i - 1) = key
         THEN collection.e[CHOOSE i \in 1..Len(collection.e) : NumStr(i - 1) = key]
         ELSE Undef
    [] OTHER -> Undef

RECURSIVE getIn(_, _)
\* immutable's getIn(collection, keyPath): the value itself for the empty path,
\* undefined as soon as a key is not set
getIn(collection, path) ==
  IF Len(path) = 0 THEN collection
  ELSE LET next == get(collection, ToStr(path[1]))
       IN IF Len(path) = 1 THEN next
          ELSE IF next.t = "undefined" THEN Undef
          ELSE getIn(next, Tail(path))

(***************************************************************************)
(* Path codec.  An internal path is a JS array whose elements are strings  *)
(* (field names), the empty array [] (the wildcard) or numbers (indices).  *)
(***************************************************************************)
Wild == Arr(<<>>)
IsWild(el) == el.t = "array" /\ Len(el.e) = 0

RECURSIVE Split(_, _, _)
\* String.prototype.split('.')
Split(s, i, cur) ==
  IF i > Len(s) THEN <<cur>>
  ELSE IF s[i] = "." THEN <<cur>> \o Split(s, i + 1, <<>>)
  ELSE Split(s, i + 1, Append(cur, s[i]))

\* mapKeyToPath that reads only `$` as the wildcard
mapKeyToPath_dollarOnly(key) ==
  LET ks == Split(key, 1, <<>>)
  IN [i \in 1..Len(ks) |-> IF ks[i] = <<"$">> THEN Wild ELSE Str(ks[i])]

mapKeyToPath(key) ==
  LET ks == Split(key, 1, <<>>)
  IN [i \in 1..Len(ks) |->
        IF ks[i] = <<"[", "]">> \/ ks[i] = <<"$">> THEN Wild ELSE Str(ks[i])]

mapPathToKey(path, removeArrays) ==
  LET mapped == [i \in 1..Len(path) |->
                   IF IsWild(path[i])
                   THEN (IF Len(path) = 1 THEN Str(<<"$">>) ELSE Str(<<"[", "]">>))
                   ELSE path[i]]
      kept == SelectSeq(mapped, LAMBDA p : ~(removeArrays /\ p = Str(<<"[", "]">>)))
  IN Join([i \in 1..Len(kept) |-> ToStr(kept[i])], <<".">>)

(***************************************************************************)
(* Schema declarations.  A declaration is the sequence of its (key, rule)  *)
(* entries; a rule carries type ("none" when not declared), allowNull      *)
(* (FALSE also when unset: the code only tests its truthiness), validate   *)
(* (Undef when absent) and schema (Undef when absent).                     *)
(***************************************************************************)
Rule(type, allowNull, validate, sub) ==
  [type |-> type, allowNull |-> allowNull, validate |-> validate, schema |-> sub]
ValidateMap(m) == [t |-> "validate", m |-> m]
SubSchema(decl) == [t |-> "schema", decl |-> decl]
SchemaObj(decl) == [t |-> "object", decl |-> decl]
Entry(key, rule) == [key |-> key, rule |-> rule]
VEntry(k, spec) == [k |-> k, spec |-> spec]

\* flat[key] = rule on a JS object: replace in place, or append a new key
Put(flat, key, rule) ==
  IF \E i \in 1..Len(flat) : flat[i].key = key
  THEN [i \in 1..Len(flat) |-> IF flat[i].key = key THEN Entry(key, rule) ELSE flat[i]]
  ELSE Append(flat, Entry(key, rule))

RECURSIVE Spread(_, _)
\* {...flat, ...more}
Spread(flat, more) ==
  IF Len(more) = 0 THEN flat
  ELSE Spread(Put(flat, more[1].key, more[1].rule), Tail(more))

RECURSIVE flattenEntries(_, _, _, _)
\* the forEach of flattenSchema, from entry i on, with the table built so far
flattenEntries(decl, prefix, i, flat) ==
  IF i > Len(decl) THEN flat
  ELSE
    LET field == decl[i].key
        fieldSchema == decl[i].rule
        path == prefix \o (IF field = <<"$">> /\ Len(prefix) > 0 THEN <<>> ELSE <<Str(field)>>)
        flat1 ==
          IF fieldSchema.type \in {"object", "array"} /\ fieldSchema.schema # Undef
          THEN Spread(flat,
                      flattenEntries(fieldSchema.schema.decl,
                                     path \o (IF fieldSchema.type = "object" THEN <<>> ELSE <<Wild>>),
                                     1, <<>>))
          ELSE flat
        flat2 ==
          IF fieldSchema.validate # Undef
          THEN Put(flat1, mapPathToKey(path, FALSE), fieldSchema)
          ELSE flat1
    IN flattenEntries(decl, prefix, i + 1, flat2)

flattenSchema(decl, prefix) == flattenEntries(decl, prefix, 1, <<>>)

(***************************************************************************)
(* Error items and the predicate registry.                                 *)
(***************************************************************************)
\* `Validation ${k} on ${field} failed`
Message(k, on) == [text |-> "Validation on failed", k |-> k, on |-> on]

ValidationErrorItem(message, path, value, validatorKey, fnName, fnArgs) ==
  [t |-> "ValidationErrorItem",
   message |-> message,
   path |-> IF Truthy(path) THEN path ELSE Null,
   value |-> IF value.t # "undefined" THEN value ELSE Null,
   validatorKey |-> validatorKey,
   validatorName |-> fnName,
   validatorArgs |-> IF Truthy(fnArgs) THEN fnArgs ELSE Arr(<<>>)]

IsItem(r) == r.t = "ValidationErrorItem"

\* the result of a call: a returned value, or an exception
Returned(v) == [threw |-> "none", val |-> v]
Threw(name, v) == [threw |-> name, val |-> v]

allowedKeys(o, keys) ==
  IF IsNullish(o) THEN Threw("TypeError", Null)
  ELSE LET ks == ObjectKeys(o)
           extraKeys == {ks[i] : i \in 1..Len(ks)}
                          \ {keys[j].s : j \in {j \in 1..Len(keys) : keys[j].t = "string"}}
       IN Returned(Bool(Cardinality(extraKeys) = 0))

\* `o.length >= min`, `o.length <= max` against an argument that may be missing
ArgAt(args, i) == IF i <= Len(args) THEN args[i] ELSE Undef

size(o, min, max) ==
  Returned(Bool(IsArray(o)
                /\ (min.t = "number" /\ Len(o.e) >= min.n)
                /\ (~Truthy(max) \/ (max.t = "number" /\ Len(o.e) <= max.n))))

isString(o) == Returned(Bool(TypeOf(o) = "string"))

\* validator.len of validator-extras, a string validator: min <= length <= max
len(str, min, max) ==
  Returned(Bool((min.t = "number" /\ Len(str.s) >= min.n)
                /\ (max.t = "undefined" \/ (max.t = "number" /\ Len(str.s) <= max.n))))

StringValidators == {"len"}
ExtraValidators == {"allowedKeys", "size", "isString"}

\* the ad-hoc predicates of the test suite and the README
CustomPredicate(name, o) ==
  CASE name = "falsy" -> Returned(Bool(FALSE))
    [] name = "truthy" -> Returned(Bool(TRUE))
    [] name = "throw" ->
         Threw("ValidationErrorItem",
               ValidationErrorItem([text |-> "wrong value", k |-> "", on |-> <<>>],
                                   Arr(<<Str(<<"k">>)>>), o, "throw", "throw", Null))
    [] OTHER -> Threw("TypeError", Null)

(***************************************************************************)
(* Validator composer.  A validator function is a tree: a leaf built by    *)
(* schemaToValidators, the constant `() => true`, or the closure `v` of    *)
(* composeValidators over two validators.                                  *)
(***************************************************************************)
\* one closure of schemaToValidators, for validator k of the mapping
schemaToValidator(field, entry) ==
  LET k == entry.k
      isStringValidator == k \in StringValidators
      isCustom == k \notin StringValidators /\ k \notin ExtraValidators
      validatorArgs ==
        IF isCustom \/ entry.spec = Bool(TRUE) THEN <<>>
        ELSE IF IsArray(entry.spec) THEN entry.spec.e
        ELSE <<entry.spec>>
  IN [node |-> "leaf", k |-> k, field |-> field, spec |-> entry.spec,
      isStringValidator |-> isStringValidator, isCustom |-> isCustom,
      validatorArgs |-> validatorArgs]

schemaToValidators(field, validate) ==
  [i \in 1..Len(validate.m) |-> schemaToValidator(field, validate.m[i])]

AlwaysTrue == [node |-> "true"]

RECURSIVE composeValidators(_)
composeValidators(vs) ==
  IF Len(vs) = 0 THEN AlwaysTrue
  ELSE IF Len(vs) = 1 THEN vs[1]
  ELSE composeValidators(<<[node |-> "v", v1 |-> vs[1], v2 |-> vs[2]]>> \o SubSeq(vs, 3, Len(vs)))

\* o => (!isStringValidator ? o : ((o && String(o)) || ''))
sanitize(v, o) ==
  IF ~v.isStringValidator THEN o
  ELSE IF Truthy(o) /\ Len(ToStr(o)) > 0 THEN Str(ToStr(o))
  ELSE Str(<<>>)

\* predicate.apply(validator, [sanitize(o), ...validatorArgs])
applyPredicate(v, o) ==
  LET x == sanitize(v, o)
      args == v.validatorArgs
  IN CASE v.k = "len" -> len(x, ArgAt(args, 1), ArgAt(args, 2))
       [] v.k = "allowedKeys" -> allowedKeys(x, args)
       [] v.k = "size" -> size(x, ArgAt(args, 1), ArgAt(args, 2))
       [] v.k = "isString" -> isString(x)
       [] OTHER ->
            IF v.spec.t = "function" THEN CustomPredicate(v.spec.name, x)
            ELSE Threw("TypeError", Null)

\* the body of a leaf closure: the predicate's result when truthy, else a new item
callLeaf(v, o) ==
  LET r == applyPredicate(v, o)
  IN IF r.threw # "none" THEN r
     ELSE IF Truthy(r.val) THEN r
     ELSE Returned(ValidationErrorItem(Message(v.k, v.field), Str(v.field), sanitize(v, o),
                                       v.k, v.k, Arr(v.validatorArgs)))

RECURSIVE call(_, _, _)
\* call where the closure v runs v2 even after v1 has failed
call_noShortCircuit(v, o, calls) ==
  CASE v.node = "true" -> [r |-> Returned(Bool(TRUE)), calls |-> calls]
    [] v.node = "leaf" -> [r |-> callLeaf(v, o), calls |-> Append(calls, v.k)]
    [] OTHER ->
         LET c1 == call(v.v1, o, calls)
             c2 == call(v.v2, o, c1.calls)
         IN IF c1.r.threw # "none" THEN c1
            ELSE IF IsItem(c1.r.val) THEN [r |-> c1.r, calls |-> c2.calls]
            ELSE c2

\* calling a validator function on o; `calls` is the list of the predicates
\* invoked so far, by validator key.  The result carries the list extended.
call(v, o, calls) ==
  CASE v.node = "true" -> [r |-> Returned(Bool(TRUE)), calls |-> calls]
    [] v.node = "leaf" -> [r |-> callLeaf(v, o), calls |-> Append(calls, v.k)]
    [] OTHER ->
         LET c1 == call(v.v1, o, calls)
         IN IF c1.r.threw # "none" THEN c1
            ELSE IF IsItem(c1.r.val) THEN c1
            ELSE call(v.v2, o, c1.calls)

(***************************************************************************)
(* Tree validator.  A walk record carries the errors collected by the      *)
(* current call (errs), the exception in flight if any (threw), and what   *)
(* the whole walk has done so far: the direct entries examined (visits,    *)
(* each with the predicates it invoked), the deepest nesting of validateFn *)
(* calls (depth) and, for every array an entry recursed into, the path of  *)
(* the entry and the path of the singleton schema passed down (recursions).*)
(***************************************************************************)
NoWalk ==
  [errs |-> <<>>, threw |-> Returned(Null), visits |-> <<>>, depth |-> 0, recursions |-> <<>>]

\* HasArray without the test on the length of the path
HasArray_anyLength(path) == \E i \in 1..Len(path) : IsWild(path[i])

\* path.find(el => Array.isArray(el) && el.length === 0 && path.length > 1)
HasArray(path) == \E i \in 1..Len(path) : IsWild(path[i]) /\ Len(path) > 1

Keyed(flat) == [i \in 1..Len(flat) |-> [path |-> mapKeyToPath(flat[i].key), rule |-> flat[i].rule]]
fieldsSchemasOf(flat) == SelectSeq(Keyed(flat), LAMBDA e : ~HasArray(e.path))
fieldSchemasToRecurOf(flat) == SelectSeq(Keyed(flat), LAMBDA e : HasArray(e.path))

\* arr.length
LengthOf(arr) ==
  CASE arr.t = "array" -> Num(Len(arr.e))
    [] arr.t = "string" -> Num(Len(arr.s))
    [] arr.t = "object" -> get(arr, LengthKey)
    [] OTHER -> Undef

\* examine without the allowNull short-circuit
examine_noNullSkip(fieldSchema, path, value, fieldvalidator) ==
  IF ~fieldSchema.allowNull /\ IsNullish(value)
  THEN [r |-> Returned(ValidationErrorItem(Message("required", ToStr(Arr(path))), Arr(path),
                                           value, "required", "required", Null)),
        calls |-> <<>>]
  ELSE call(fieldvalidator, value, <<>>)

\* the decision of fieldsSchemas.forEach for one entry: the result and the
\* predicates invoked to reach it
examine(fieldSchema, path, value, fieldvalidator) ==
  IF ~fieldSchema.allowNull /\ IsNullish(value)
  THEN [r |-> Returned(ValidationErrorItem(Message("required", ToStr(Arr(path))), Arr(path),
                                           value, "required", "required", Null)),
        calls |-> <<>>]
  ELSE IF fieldSchema.allowNull /\ IsNullish(value)
  THEN [r |-> Returned(Bool(TRUE)), calls |-> <<>>]
  ELSE call(fieldvalidator, value, <<>>)

\* the body of fieldsSchemas.forEach for one entry; the visit recorded for it
\* holds the full path examined, the value found, the predicates invoked in
\* order and the result
directStep(o, path, fieldSchema, prefix, w) ==
  LET fieldvalidator ==
        IF fieldSchema.validate # Undef
        THEN composeValidators(schemaToValidators(mapPathToKey(prefix \o path, TRUE),
                                                  fieldSchema.validate))
        ELSE AlwaysTrue
      value == IF IsWild(path[1]) THEN o ELSE getIn(o, path)
      c == examine(fieldSchema, path, value, fieldvalidator)
      seen == Append(w.visits, [at |-> prefix \o path, path |-> path, rule |-> fieldSchema,
                                value |-> value, invoked |-> c.calls, result |-> c.r])
  IN IF c.r.threw # "none" THEN [w EXCEPT !.visits = seen, !.threw = c.r]
     ELSE IF IsItem(c.r.val) THEN [w EXCEPT !.visits = seen, !.errs = Append(w.errs, c.r.val)]
     ELSE [w EXCEPT !.visits = seen]

RECURSIVE directLoop(_, _, _, _, _)
directLoop(o, fields, prefix, i, w) ==
  IF i > Len(fields) \/ w.threw.threw # "none" THEN w
  ELSE directLoop(o, fields, prefix, i + 1,
                  directStep(o, fields[i].path, fields[i].rule, prefix, w))

Max(a, b) == IF a >= b THEN a ELSE b

RECURSIVE validateFn(_, _, _, _, _)
RECURSIVE elementLoop(_, _, _, _, _, _, _)
RECURSIVE recurLoop(_, _, _, _, _, _)

\* arr.forEach((el, i) => ...) from element i on (1-based here, i - 1 in the code)
elementLoop(arr, key, fieldSchema, prefix, i, d, w) ==
  IF i > Len(arr.e) \/ w.threw.threw # "none" THEN w
  ELSE LET arrErrs == validateFn(arr.e[i], <<Entry(key, fieldSchema)>>,
                                 prefix \o <<Num(i - 1)>>, d + 1, [w EXCEPT !.errs = <<>>])
       IN elementLoop(arr, key, fieldSchema, prefix, i + 1, d,
                      [arrErrs EXCEPT !.errs = w.errs \o arrErrs.errs])

\* fieldSchemasToRecur.forEach from entry j on
recurLoop(o, recur, prefix, j, d, w) ==
  IF j > Len(recur) \/ w.threw.threw # "none" THEN w
  ELSE
    LET path == recur[j].path
        fieldSchema == recur[j].rule
        arrIndex == CHOOSE i \in 1..Len(path) :
                      IsWild(path[i]) /\ \A h \in 1..(i - 1) : ~IsWild(path[h])
        pathBeforeArr == SubSeq(path, 1, arrIndex - 1)
        pathAfterArr == SubSeq(path, arrIndex + 1, Len(path))
        arr == getIn(o, pathBeforeArr)
        after == mapPathToKey(pathAfterArr, FALSE)
        key == IF Len(after) > 0 THEN after ELSE <<"$">>
        w1 == IF Truthy(arr) /\ Truthy(LengthOf(arr))
              THEN IF IsArray(arr)
                   THEN elementLoop(arr, key, fieldSchema, prefix \o pathBeforeArr, 1, d,
                                    [w EXCEPT !.recursions =
                                       Append(@, [from |-> path, to |-> mapKeyToPath(key)])])
                   ELSE [w EXCEPT !.threw = Threw("TypeError", Null)]
              ELSE w
    IN recurLoop(o, recur, prefix, j + 1, d, w1)

\* validateFn running the array recursion before the direct entries
validateFn_recurFirst(o, flat, prefix, d, w) ==
  LET recur == recurLoop(o, fieldSchemasToRecurOf(flat), prefix, 1, d,
                         [w EXCEPT !.errs = <<>>, !.depth = Max(w.depth, d)])
  IN directLoop(o, fieldsSchemasOf(flat), prefix, 1, recur)

\* validateFn(obj, schema, prefix) at nesting depth d, continuing the walk w
validateFn(o, flat, prefix, d, w) ==
  LET direct == directLoop(o, fieldsSchemasOf(flat), prefix, 1,
                           [w EXCEPT !.errs = <<>>, !.depth = Max(w.depth, d)])
  IN recurLoop(o, fieldSchemasToRecurOf(flat), prefix, 1, d, direct)

(***************************************************************************)
(* The public entry point.                                                 *)
(***************************************************************************)
ValidationErrors(errors) == [kind |-> "throw", name |-> "ValidationErrors", errors |-> errors]
AssertionError(message) == [kind |-> "throw", name |-> "AssertionError", message |-> message]
Pending == [kind |-> "pending"]

\* the walk validate makes once both assertions have passed
walkOf(o, s) == validateFn(o, flattenSchema(s.decl, <<>>), <<>>, 1, NoWalk)

\* schema = {} when the argument is not supplied
withDefault(s) == IF s.t = "undefined" THEN SchemaObj(<<>>) ELSE s

\* precondition with the two assertions in the other order
precondition_schemaFirst(o, s) ==
  IF ~(Truthy(s) /\ TypeOf(s) = "object") THEN "schema should be valid"
  ELSE IF ~(Truthy(o) /\ TypeOf(o) = "object")
  THEN "object to validate should be an object or an array"
  ELSE ""

\* the two assertions, in order: the message of the first that fails, or ""
precondition(o, s) ==
  IF ~(Truthy(o) /\ TypeOf(o) = "object")
  THEN "object to validate should be an object or an array"
  ELSE IF ~(Truthy(s) /\ TypeOf(s) = "object") THEN "schema should be valid"
  ELSE ""

\* conclude raising only from the second error on
conclude_moreThanOne(w) ==
  IF w.threw.threw # "none"
  THEN [kind |-> "throw", name |-> w.threw.threw, thrown |-> w.threw.val]
  ELSE IF Len(w.errs) > 1 THEN ValidationErrors(w.errs)
  ELSE [kind |-> "return", value |-> Bool(TRUE)]

\* how validate ends once validateFn has ended with the walk w
conclude(w) ==
  IF w.threw.threw # "none"
  THEN [kind |-> "throw", name |-> w.threw.threw, thrown |-> w.threw.val]
  ELSE IF Len(w.errs) > 0 THEN ValidationErrors(w.errs)
  ELSE [kind |-> "return", value |-> Bool(TRUE)]

validateResult(o, s0) ==
  LET s == withDefault(s0)
      failed == precondition(o, s)
  IN IF failed # "" THEN [out |-> AssertionError(failed), log |-> NoWalk]
     ELSE LET w == walkOf(o, s) IN [out |-> conclude(w), log |-> w]

(***************************************************************************)
(* Inputs.  Field names a, b (scalars), r (a nested container), n (a child *)
(* of r) and the self key $.                                               *)
(***************************************************************************)
A == <<"a">>
B == <<"b">>
R == <<"r">>
N == <<"n">>
Dollar == <<"$">>
Text == Str(<<"a", "b">>)

V_isString == VEntry("isString", Bool(TRUE))
V_len == VEntry("len", Arr(<<Num(1), Num(1)>>))
V_size == VEntry("size", Arr(<<Num(1), Num(1)>>))
V_allowedKeys == VEntry("allowedKeys", Arr(<<Str(N)>>))
V_falsy == VEntry("falsy", Fn("falsy"))
V_truthy == VEntry("truthy", Fn("truthy"))
V_throw == VEntry("throw", Fn("throw"))

\* the sequences over S of length at most n without a repeated validator key
Mappings(S, n) ==
  {m \in UNION {[1..h -> S] : h \in 0..n} :
     \A i, j \in 1..Len(m) : m[i].k = m[j].k => i = j}

RECURSIVE SeqsUpTo(_, _)
SeqsUpTo(S, n) ==
  IF n = 0 THEN {<<>>}
  ELSE LET shorter == SeqsUpTo(S, n - 1)
       IN shorter \cup {Append(q, x) : q \in {q \in shorter : Len(q) = n - 1}, x \in S}

\* flat schemas: one rich rule for a, next to a plain second field
FlatValidate ==
  {Undef} \cup {ValidateMap(m) :
                  m \in Mappings({V_isString, V_len, V_falsy, V_truthy, V_throw}, MaxValidators)}
FlatRules == {Rule(t, n, v, Undef) : t \in {"none", "string"}, n \in BOOLEAN, v \in FlatValidate}
PlainRules == {Rule("none", FALSE, ValidateMap(<<V_falsy>>), Undef), Rule("none", FALSE, Undef, Undef)}
FlatSchemas ==
  {<<Entry(k, r)>> : k \in {A, Dollar}, r \in FlatRules}
    \cup {<<Entry(A, r), Entry(B, p)>> : r \in FlatRules, p \in PlainRules}
    \cup {<<Entry(B, p), Entry(A, r)>> : r \in FlatRules, p \in PlainRules}
FlatValues ==
  {Obj(a \o b) :
     a \in {<<>>} \cup {<<Pair(A, v)>> : v \in {Null, Text, Str(<<>>), Num(0), Num(1)}},
     b \in {<<>>, <<Pair(B, Text)>>}}

\* tree schemas: r is an object or an array with a sub-schema, next to a
ChildRules ==
  {Rule("none", n, ValidateMap(<<v>>), Undef) : n \in BOOLEAN, v \in {V_isString, V_allowedKeys}}
ChildDecls ==
  {<<Entry(k, c)>> : k \in {N, Dollar}, c \in ChildRules}
    \cup {<<Entry(N, c), Entry(Dollar, Rule("none", FALSE, ValidateMap(<<V_allowedKeys>>), Undef))>> :
            c \in ChildRules}
    \cup {<<Entry(Dollar, c), Entry(N, Rule("none", FALSE, ValidateMap(<<V_isString>>), Undef))>> :
            c \in ChildRules}
ContainerRules ==
  {Rule(t, n, v, SubSchema(d)) :
     t \in {"object", "array"}, n \in BOOLEAN,
     v \in {Undef, ValidateMap(<<V_size>>)}, d \in ChildDecls}
LeafRule == Rule("none", FALSE, ValidateMap(<<V_isString>>), Undef)
TreeSchemas ==
  {<<Entry(R, c)>> : c \in ContainerRules}
    \cup {<<Entry(R, c), Entry(A, LeafRule)>> : c \in ContainerRules}
    \cup {<<Entry(A, LeafRule), Entry(R, c)>> : c \in ContainerRules}
Elements == {Null, Obj(<<Pair(N, Text)>>), Obj(<<Pair(N, Num(0)), Pair(B, Num(1))>>)}
TreeValues ==
  {Obj(r \o a) :
     r \in {<<>>} \cup {<<Pair(R, v)>> :
                          v \in {Null, Text, Num(1), Obj(<<>>), Obj(<<Pair(N, Text)>>)}
                                  \cup {Arr(e) : e \in SeqsUpTo(Elements, MaxArrLen)}},
     a \in {<<>>, <<Pair(A, Num(1))>>}}

\* entry-point arguments of every runtime type
EntryValues ==
  {Undef, Null, Num(0), Num(1), Str(<<>>), Text, Bool(FALSE), Bool(TRUE), Fn("truthy"),
   Obj(<<>>), Arr(<<>>), Obj(<<Pair(A, Text)>>)}
EntrySchemas ==
  {Undef, Null, Num(0), Num(1), Str(<<>>), Text, Bool(FALSE), Bool(TRUE),
   SchemaObj(<<>>), SchemaObj(<<Entry(A, LeafRule)>>)}

(***************************************************************************)
(* The state machine: one call of validate on arguments drawn at Init.     *)
(***************************************************************************)
Init ==
  /\ \/ obj \in FlatValues /\ schema \in {SchemaObj(d) : d \in FlatSchemas}
     \/ obj \in TreeValues /\ schema \in {SchemaObj(d) : d \in TreeSchemas}
     \/ obj \in EntryValues /\ schema \in EntrySchemas
  /\ pc = "call"
  /\ out = Pending
  /\ log = NoWalk

validate ==
  /\ pc = "call"
  /\ LET res == validateResult(obj, schema)
     IN /\ out' = res.out
        /\ log' = res.log
  /\ pc' = "done"
  /\ UNCHANGED <<obj, schema>>

Next == validate

Spec == Init /\ [][Next]_vars

(***************************************************************************)
(* Properties.                                                             *)
(***************************************************************************)
Done == pc = "done"
IsContainer(v) == v.t \in {"object", "array"}
Raised(name) == out.kind = "throw" /\ out.name = name
ReturnedTrue == out.kind = "return" /\ out.value = Bool(TRUE)
\* validateFn ran to its end: validate returned or raised the aggregate
Completed == Done /\ (ReturnedTrue \/ Raised("ValidationErrors"))
\* the errors validate reported
Reported == IF Raised("ValidationErrors") THEN out.errors ELSE <<>>
\* the visits that ended with an error item, and their items, in visit order
IsItemVisit(v) == v.result.threw = "none" /\ IsItem(v.result.val)
ItemVisits == SelectSeq(log.visits, IsItemVisit)
VisitItems == [i \in 1..Len(ItemVisits) |-> ItemVisits[i].result.val]
\* the path of an error item as a string (String(path))
PathString(item) == ToStr(item.path)

BadValue == ~(obj.t \in {"object", "array"})
AssertionRaised(message) ==
  /\ Raised("AssertionError") /\ out.message = message
  /\ log.visits = <<>>

\* C2 as stated: validate raises an assertion failure whenever the value is
\* not a non-null object or array, and whenever the schema is null, not
\* supplied or not an object; the value is checked first and no field is
\* examined.
C2_AssertsOnNullishSchema ==
  Done =>
    /\ BadValue => AssertionRaised("object to validate should be an object or an array")
    /\ (~BadValue /\ (schema.t \in {"undefined", "null"} \/ TypeOf(schema) # "object")) =>
         AssertionRaised("schema should be valid")

\* C2 amended: the schema assertion fails for a null schema and for a supplied
\* schema that is not an object; a schema that is not supplied is the empty
\* schema, and validate returns true for every container value.
C2_AssertsOnBadArguments ==
  Done =>
    /\ BadValue => AssertionRaised("object to validate should be an object or an array")
    /\ (~BadValue /\ schema.t # "undefined"
          /\ (schema.t = "null" \/ TypeOf(schema) # "object")) =>
         AssertionRaised("schema should be valid")
    /\ (~BadValue /\ schema.t = "undefined") => (ReturnedTrue /\ log.visits = <<>>)
    /\ Raised("AssertionError") =>
         (BadValue \/ schema.t = "null" \/ TypeOf(schema) # "object")

C2_Witness ==
  /\ Done /\ BadValue /\ schema.t = "null"
  /\ AssertionRaised("object to validate should be an object or an array")

\* the fields declared at the top level and, for an object-typed field with a
\* sub-schema, the fields declared for its children: path and rule
Decl == IF schema.t = "object" THEN schema.decl ELSE <<>>
TopFields ==
  {<<<<Str(Decl[i].key)>>, Decl[i].rule>> : i \in {i \in 1..Len(Decl) : Decl[i].key # Dollar}}
ObjectChildFields ==
  UNION {LET e == Decl[i]
         IN IF e.key # Dollar /\ e.rule.type = "object" /\ e.rule.schema # Undef
            THEN {<<<<Str(e.key), Str(e.rule.schema.decl[j].key)>>, e.rule.schema.decl[j].rule>> :
                    j \in {j \in 1..Len(e.rule.schema.decl) : e.rule.schema.decl[j].key # Dollar}}
            ELSE {} : i \in 1..Len(Decl)}
DeclaredFields == TopFields \cup ObjectChildFields
DottedPath(path) == Join([i \in 1..Len(path) |-> ToStr(path[i])], <<".">>)
VisitsAt(path) == {i \in 1..Len(log.visits) : log.visits[i].at = path}

\* C3 as stated: every declared field whose rule has allowNull false or unset
\* and whose value is absent or null yields exactly one error item, named
\* `required` with no arguments, and none of its predicates is run, whatever
\* else the rule has or lacks.
C3_RequiredForEveryDeclaredField ==
  Completed =>
    \A d \in DeclaredFields :
      (~d[2].allowNull /\ IsNullish(getIn(obj, d[1]))) =>
        /\ \E i \in 1..Len(Reported) :
             /\ Reported[i].validatorKey = "required"
             /\ Reported[i].validatorName = "required"
             /\ Reported[i].validatorArgs = Arr(<<>>)
             /\ Reported[i].path = Arr(d[1])
        /\ Cardinality({i \in 1..Len(Reported) : Reported[i].path \in {Arr(d[1]), Str(DottedPath(d[1]))}}) = 1
        /\ \A i \in VisitsAt(d[1]) : log.visits[i].invoked = <<>>

\* C4: an entry examined by the walk whose rule has allowNull true and whose
\* value is absent or null invokes none of its predicates and ends without an
\* error item, whatever validators it declares; the reported errors are those
\* of the other visits only.
C4_NullableAbsentSkipsValidators ==
  /\ Done =>
       \A i \in 1..Len(log.visits) :
         (log.visits[i].rule.allowNull /\ IsNullish(log.visits[i].value)) =>
           /\ log.visits[i].invoked = <<>>
           /\ log.visits[i].result = Returned(Bool(TRUE))
  /\ Completed => Reported = VisitItems

C4_Witness ==
  /\ Completed
  /\ \E i \in 1..Len(log.visits) :
       /\ log.visits[i].rule.allowNull /\ IsNullish(log.visits[i].value)
       /\ log.visits[i].rule.validate # Undef
       /\ Len(log.visits[i].rule.validate.m) = MaxValidators
       /\ log.visits[i].rule.validate.m[1].k = "falsy"
       /\ log.visits[i].invoked = <<>>

\* the predicates of a visit, taken one by one on the visit's value
VisitLeaf(v, i) == schemaToValidator(mapPathToKey(v.at, TRUE), v.rule.validate.m[i])
LeafFails(v, i) ==
  LET r == callLeaf(VisitLeaf(v, i), v.value) IN r.threw # "none" \/ IsItem(r.val)
\* the index of the first failing predicate of a visit, or the number of
\* predicates when none fails
StopIndex(v) ==
  LET n == Len(v.rule.validate.m)
  IN IF \E i \in 1..n : LeafFails(v, i)
     THEN CHOOSE i \in 1..n : LeafFails(v, i) /\ \A h \in 1..(i - 1) : ~LeafFails(v, h)
     ELSE n
RanValidators(v) == v.rule.validate # Undef /\ ~IsNullish(v.value)

\* C5: the composed validator of a field invokes its predicates in declaration
\* order up to and including the first failing one and no further; the error
\* of the field is the one of that first failing predicate; each visit (field,
\* per array element) contributes at most one error item.
C5_FirstFailureWins ==
  /\ Done =>
       \A i \in 1..Len(log.visits) :
         LET v == log.visits[i]
         IN RanValidators(v) =>
              LET m == v.rule.validate.m
                  stop == StopIndex(v)
              IN /\ v.invoked = [h \in 1..stop |-> m[h].k]
                 /\ (stop > 0 /\ LeafFails(v, stop)) =>
                      v.result = callLeaf(VisitLeaf(v, stop), v.value)
                 /\ (v.result.threw = "none" /\ IsItem(v.result.val)) =>
                      (stop > 0 /\ v.result.val.validatorKey = m[stop].k)
                 /\ (stop = 0 \/ ~LeafFails(v, stop)) =>
                      (v.result.threw = "none" /\ ~IsItem(v.result.val))
  /\ Completed => (Reported = VisitItems /\ Len(Reported) <= Len(log.visits))

C5_Witness ==
  /\ Completed
  /\ \E i \in 1..Len(log.visits) :
       LET v == log.visits[i]
       IN /\ RanValidators(v)
          /\ Len(v.rule.validate.m) = MaxValidators
          /\ LeafFails(v, 1)
          /\ \E h \in 2..MaxValidators : LeafFails(v, h)
          /\ v.invoked = <<v.rule.validate.m[1].k>>
          /\ Len(Reported) = 1

RECURSIVE Concat(_)
Concat(ss) == IF Len(ss) = 0 THEN <<>> ELSE ss[1] \o Concat(Tail(ss))
\* the flat table of the call, its direct entries and its array entries
Flat == flattenSchema(Decl, <<>>)
DirectEntries == SelectSeq(Flat, LAMBDA e : ~HasArray(mapKeyToPath(e.key)))
ArrayEntries == SelectSeq(Flat, LAMBDA e : HasArray(mapKeyToPath(e.key)))
\* the walk of the value against one entry of the table alone
WalkOfEntry(e) == validateFn(obj, <<e>>, <<>>, 1, NoWalk)
\* the first array index on the full path of a visit
FirstIndex(at) == at[CHOOSE i \in 1..Len(at) : at[i].t = "number" /\ \A h \in 1..(i - 1) : at[h].t # "number"].n
ItemVisitsOf(w) == SelectSeq(w.visits, IsItemVisit)

IsIndexOrName(el) == ~IsWild(el)
FullPath(at) ==
  IF at = <<Wild>> THEN <<"$">>
  ELSE DottedPath(SelectSeq(at, IsIndexOrName))

\* C7 as stated: every error item of the raised ValidationErrors, required or
\* predicate error, at any depth, has as path the dotted string of the full
\* path from the root to the examined value, with concrete indices.
C7_ErrorPathsAreFullDottedPaths ==
  (Raised("ValidationErrors") /\ Reported = VisitItems) =>
    \A i \in 1..Len(Reported) : PathString(Reported[i]) = FullPath(ItemVisits[i].at)

\* the value is of the declared type
TypeMatches(type, v) ==
  CASE type = "string" -> v.t = "string"
    [] type = "array" -> v.t = "array"
    [] type = "object" -> v.t \in {"object", "array"}
    [] OTHER -> TRUE
TypeTag(type) ==
  CASE type = "string" -> <<"s", "t", "r", "i", "n", "g">>
    [] type = "array" -> <<"a", "r", "r", "a", "y">>
    [] type = "object" -> <<"o", "b", "j", "e", "c", "t">>
    [] OTHER -> <<>>

\* C8 as stated: a declared field with a type whose value is present but not
\* of that type yields exactly one error for the field, named `type`, with the
\* type tag as its argument, with or without a validate mapping and before
\* any other validator.
C8_TypeErrorReported ==
  Completed =>
    \A d \in TopFields :
      LET value == getIn(obj, d[1])
      IN (d[2].type # "none" /\ ~IsNullish(value) /\ ~TypeMatches(d[2].type, value)) =>
           /\ Cardinality({i \in 1..Len(Reported) : PathString(Reported[i]) = DottedPath(d[1])}) = 1
           /\ \E i \in 1..Len(Reported) :
                /\ PathString(Reported[i]) = DottedPath(d[1])
                /\ Reported[i].validatorKey = "type"
                /\ Reported[i].validatorName = "type"
                /\ ToStr(Reported[i].validatorArgs) = TypeTag(d[2].type)

\* C9 as stated: a ValidationErrorItem thrown by a custom predicate is caught
\* and recorded as the error of that field; validate raises ValidationErrors
\* holding that item.
C9_ThrownItemIsCollected ==
  Done =>
    \A i \in 1..Len(log.visits) :
      log.visits[i].result.threw = "ValidationErrorItem" =>
        /\ Raised("ValidationErrors")
        /\ \E j \in 1..Len(out.errors) : out.errors[j] = log.visits[i].result.val

RECURSIVE DeclaresThrow(_)
\* some rule of the declaration has a predicate that throws
DeclaresThrow(decl) ==
  \E i \in 1..Len(decl) :
    \/ /\ decl[i].rule.validate # Undef
       /\ \E h \in 1..Len(decl[i].rule.validate.m) : decl[i].rule.validate.m[h].spec = Fn("throw")
    \/ /\ decl[i].rule.schema # Undef
       /\ DeclaresThrow(decl[i].rule.schema.decl)

\* C10 as stated: for a container value and a schema whose predicates are
\* total, validate ends by returning true or by raising ValidationErrors,
\* whatever the runtime shape of the data at a declared path.
C10_OnlyValidationErrorsEscape ==
  (Done /\ IsContainer(obj) /\ schema.t = "object" /\ ~DeclaresThrow(Decl)) =>
    (ReturnedTrue \/ Raised("ValidationErrors"))

(***************************************************************************)
(* The size predicate through validate: a field r with the one validator   *)
(* `size` and its argument list, against values of every shape.            *)
(***************************************************************************)
MaxSizeArg == 2   \* largest min and max drawn for `size`

\* size: [min] and size: [min, max]
SizeArgs ==
  {<<Num(mn)>> : mn \in 0..MaxSizeArg}
    \cup {<<Num(mn), Num(mx)>> : mn \in 0..MaxSizeArg, mx \in 0..MaxSizeArg}
SizeSchemas ==
  {SchemaObj(<<Entry(R, Rule("array", FALSE, ValidateMap(<<VEntry("size", Arr(args))>>), Undef))>>) :
     args \in SizeArgs}
SizeValues ==
  {Obj(<<Pair(R, v)>>) :
     v \in {Text, Num(1), Obj(<<>>)} \cup {Arr(e) : e \in SeqsUpTo({Num(0)}, MaxArrLen)}}

SizeInit ==
  /\ obj \in SizeValues
  /\ schema \in SizeSchemas
  /\ pc = "call"
  /\ out = Pending
  /\ log = NoWalk

SizeSpec == SizeInit /\ [][Next]_vars

\* the value `size` is applied to and the arguments it is given
SizedValue == getIn(obj, <<Str(R)>>)
SizeGiven == Decl[1].rule.validate.m[1].spec.e
\* min <= n, and n <= max when max is supplied
InSizeRange(v, args) ==
  /\ IsArray(v)
  /\ args[1].n <= Len(v.e)
  /\ Len(args) > 1 => Len(v.e) <= args[2].n

\* C11 as stated: size(value, min, max) passes iff value is an array whose
\* length n satisfies min <= n and, when max is supplied, n <= max, for every
\* min >= 0 and max >= 0, max = 0 included.
C11_SizeIsLengthInRange ==
  Done => (ReturnedTrue <=> InSizeRange(SizedValue, SizeGiven))

(***************************************************************************)
(* The path codec on its own: an internal path rendered and parsed back.   *)
(***************************************************************************)
MaxPathLen == 3   \* longest internal path drawn for the codec

\* field names without `.` other than `[]` and `$`, and the wildcard marker
Segments == {Str(A), Text, Str(<<>>), Wild}
CodecPaths == {Arr(p) : p \in SeqsUpTo(Segments, MaxPathLen)}

CodecInit ==
  /\ obj \in CodecPaths
  /\ schema = Undef
  /\ pc = "call"
  /\ out = Pending
  /\ log = NoWalk

\* mapKeyToPath(mapPathToKey(P)): the key rendered and the path parsed back
roundTrip ==
  /\ pc = "call"
  /\ LET key == mapPathToKey(obj.e, FALSE)
     IN out' = [kind |-> "return", key |-> Str(key), value |-> Arr(mapKeyToPath(key))]
  /\ pc' = "done"
  /\ UNCHANGED <<obj, schema, log>>

CodecNext == roundTrip

CodecSpec == CodecInit /\ [][CodecNext]_vars

\* C12 as stated: for every internal path P other than the single-wildcard
\* path, mapKeyToPath(mapPathToKey(P, false)) equals P segment by segment.
C12_RoundTripExceptLoneWildcard ==
  (Done /\ obj.e # <<Wild>>) => out.value = obj

\* C12 amended: the round trip is the identity for every internal path of at
\* least one segment, the single wildcard (rendered `$`) included; the path of
\* no segment renders as the empty string, which parses back as one empty
\* field name.
C12_RoundTripOfNonEmptyPaths ==
  Done =>
    /\ Len(obj.e) > 0 => out.value = obj
    /\ Len(obj.e) = 0 => (out.key = Str(<<>>) /\ out.value = Arr(<<Str(<<>>)>>))

C12_Witness ==
  /\ Done /\ Len(obj.e) > 1
  /\ \E i, j \in 1..Len(obj.e) : IsWild(obj.e[i]) /\ obj.e[j] = Text
  /\ out.key # Str(<<>>)
  /\ out.value = obj

RECURSIVE DeclaredRules(_)
\* the rules of a nested declaration that carry a `validate` mapping, counted
\* through the sub-schemas of its object-typed and array-typed rules
DeclaredRules(decl) ==
  IF Len(decl) = 0 THEN 0
  ELSE LET rule == decl[1].rule
       IN (IF rule.validate # Undef THEN 1 ELSE 0)
            + (IF rule.type \in {"object", "array"} /\ rule.schema # Undef
               THEN DeclaredRules(rule.schema.decl) ELSE 0)
            + DeclaredRules(Tail(decl))

\* C13 as stated: every declared rule that carries a `validate` mapping has its
\* own entry in the flat table, so the table has as many entries as there are
\* such rules, two declaration sites of the same dotted path included.
C13_OneEntryPerDeclaredRule ==
  (Done /\ IsContainer(obj) /\ schema.t = "object") => Len(Flat) = DeclaredRules(Decl)

(***************************************************************************)
(* Deeper declarations: arrays of arrays, an array at the schema root, an  *)
(* array under an array's elements, and a parent with one child rule.      *)
(***************************************************************************)
ArrayRule(decl) == Rule("array", FALSE, Undef, SubSchema(decl))
\* a child rule without a `validate` mapping
BareRules == {Rule("string", n, Undef, Undef) : n \in BOOLEAN}
ParentRules ==
  {Rule(t, n, v, SubSchema(<<Entry(N, c)>>)) :
     t \in {"object", "array"}, n \in BOOLEAN,
     v \in {Undef, ValidateMap(<<V_allowedKeys>>)}, c \in ChildRules \cup BareRules}
DeepSchemas ==
  {<<Entry(A, ArrayRule(<<Entry(Dollar, c)>>))>> : c \in ChildRules}
    \cup {<<Entry(A, ArrayRule(<<Entry(Dollar, ArrayRule(<<Entry(Dollar, c)>>))>>))>> : c \in ChildRules}
    \cup {<<Entry(A, ArrayRule(<<Entry(N, ArrayRule(<<Entry(Dollar, c)>>))>>))>> : c \in ChildRules}
    \cup {<<Entry(Dollar, ArrayRule(<<Entry(N, c)>>))>> : c \in ChildRules}
    \cup {<<Entry(A, p)>> : p \in ParentRules}
DeepElements ==
  {Num(0), Arr(<<>>), Arr(<<Text>>), Arr(<<Num(0), Text>>),
   Obj(<<Pair(N, Text)>>), Obj(<<Pair(N, Arr(<<Text, Num(0)>>))>>)}
DeepArrays == {Arr(e) : e \in SeqsUpTo(DeepElements, MaxArrLen)}
DeepValues ==
  DeepArrays
    \cup {Obj(<<>>)}
    \cup {Obj(<<Pair(A, v)>>) : v \in {Null, Obj(<<>>), Obj(<<Pair(N, Text)>>)} \cup DeepArrays}

DeepInit ==
  /\ obj \in DeepValues
  /\ schema \in {SchemaObj(d) : d \in DeepSchemas}
  /\ pc = "call"
  /\ out = Pending
  /\ log = NoWalk

DeepSpec == DeepInit /\ [][Next]_vars

\* the array indices on the full path of a visit, outermost first
IsIndex(el) == el.t = "number"
Indices(at) == LET ix == SelectSeq(at, IsIndex) IN [i \in 1..Len(ix) |-> ix[i].n]

RECURSIVE Targets(_, _, _)
\* what a declaration asks for on a value: each rule with a `validate` mapping
\* together with the value it is about and the indices of the array elements
\* crossed to reach it; every element of a present non-empty array is reached
Targets(decl, value, idx) ==
  UNION {LET field == decl[i].key
             rule == decl[i].rule
             v == IF field = Dollar THEN value ELSE get(value, field)
             own == IF rule.validate # Undef
                    THEN {[rule |-> rule, value |-> v, idx |-> idx]} ELSE {}
             below ==
               IF rule.schema = Undef THEN {}
               ELSE IF rule.type = "object" THEN Targets(rule.schema.decl, v, idx)
               ELSE IF rule.type = "array" /\ IsArray(v)
               THEN UNION {Targets(rule.schema.decl, v.e[j], Append(idx, j - 1)) : j \in 1..Len(v.e)}
               ELSE {}
         IN own \cup below : i \in 1..Len(decl)}

\* a rule was applied to a value reached through the given indices
Applied(t) ==
  \E i \in 1..Len(log.visits) :
    /\ log.visits[i].rule = t.rule
    /\ log.visits[i].value = t.value
    /\ Indices(log.visits[i].at) = t.idx

\* C14 as stated: a rule declared under k >= 1 array levels is applied to
\* every element reached by iterating all k levels of present non-empty
\* arrays, also when two wildcards are adjacent (an array of arrays) and when
\* the schema root `$` is declared as an array with a sub-schema.
C14_AppliedToEveryElement ==
  (Completed /\ IsContainer(obj) /\ schema.t = "object") =>
    \A t \in Targets(Decl, obj, <<>>) : Len(t.idx) > 0 => Applied(t)

\* C15 as stated: the value of every error item is the exact input value
\* examined at the item's path, null when the value is absent, for required
\* errors and for every kind of predicate, string-oriented ones included,
\* whatever the type of the input.
C15_ItemValueIsExaminedValue ==
  (Raised("ValidationErrors") /\ Reported = VisitItems) =>
    \A i \in 1..Len(Reported) :
      Reported[i].value =
        (IF ItemVisits[i].value = Undef THEN Null ELSE ItemVisits[i].value)

\* the number of wildcard markers of a path, and the largest such number
\* over the paths of the flat table
WildcardsOf(path) == Cardinality({i \in 1..Len(path) : IsWild(path[i])})
MaxWildcards ==
  LET counts == {WildcardsOf(mapKeyToPath(Flat[i].key)) : i \in 1..Len(Flat)}
  IN IF counts = {} THEN 0 ELSE CHOOSE c \in counts : \A other \in counts : other <= c

NamedChildren(rule) ==
  {j \in 1..Len(rule.schema.decl) : rule.schema.decl[j].key # Dollar}
\* the visits of a path that ended with a `required` item
RequiredAt(path) ==
  {k \in VisitsAt(path) :
     /\ IsItemVisit(log.visits[k])
     /\ log.visits[k].result.val.validatorKey = "required"}

\* C17 as stated: when an object-typed parent is absent or null, every
\* non-nullable child rule of its sub-schema yields a `required` error,
\* whatever the parent's own rule; when an array-typed parent is absent, null
\* or empty, its child rules yield no error: nothing below the parent is
\* examined.
C17_ChildrenOfAbsentParent ==
  (Completed /\ IsContainer(obj) /\ schema.t = "object") =>
    \A i \in 1..Len(Decl) :
      LET key == Decl[i].key
          parent == Decl[i].rule
          value == get(obj, key)
      IN (key # Dollar /\ parent.schema # Undef) =>
           /\ (parent.type = "object" /\ IsNullish(value)) =>
                \A j \in NamedChildren(parent) :
                  LET child == parent.schema.decl[j]
                  IN ~child.rule.allowNull =>
                       /\ Cardinality(RequiredAt(<<Str(key), Str(child.key)>>)) = 1
                       /\ \E k \in 1..Len(Reported) :
                            /\ Reported[k].validatorKey = "required"
                            /\ Reported[k].path = Arr(<<Str(key), Str(child.key)>>)
           /\ (parent.type = "array" /\ (IsNullish(value) \/ value = Arr(<<>>))) =>
                \A k \in 1..Len(log.visits) :
                  ~(Len(log.visits[k].at) > 1 /\ log.visits[k].at[1] = Str(key))

====
